---------------------------- MODULE Spec2Model ----------------------------
(***************************************************************************)
(* Finite automata over Unicode scalars (crate `ere-automata`): the NFA    *)
(* with epsilon transitions and character-set labels, its mutators, the    *)
(* recognizer (initial_state / next_state / is_final_state), the subset    *)
(* construction, union, product, singleton detection and the 32-bit state  *)
(* builder, modelled from crates/automata/src/nfa.rs and lib.rs.           *)
(***************************************************************************)
EXTENDS Integers, Sequences, FiniteSets, TLC

VARIABLES nfa, other, builder, pc, vs, word, ret, out, walk

vars == <<nfa, other, builder, pc, vs, word, ret, out, walk>>

(***************************************************************************)
(* Bounds of the model.                                                    *)
(***************************************************************************)
\* an automaton holds at most MaxMarks transitions, marks and bare states
MaxMarks == 4
\* to_singleton is followed for at most MaxWalk pushed scalars
MaxWalk == 3
\* the counter of the state builder has CounterBits bits
CounterBits == 4
\* two automata the mutators are called on hold at most MaxMutMarks between them
MaxMutMarks == 3
\* an automaton determinized step by step holds at most MaxDetMarks
MaxDetMarks == 3
\* an automaton whose states are closed holds at most MaxEpsMarks transitions
MaxEpsMarks == 3
\* two automata whose product is inspected hold at most MaxReachMarks between them
MaxReachMarks == 5
\* two automata called on by every operation that returns or changes an
\* automaton hold at most MaxKeyMarks between them
MaxKeyMarks == 4
\* two automata to be multiplied hold at most MaxPairMarks between them
MaxPairMarks == 6
\* two automata to be united hold at most MaxUnionMarks between them
MaxUnionMarks == 5
\* the recognizer consumes at most MaxLen tokens
MaxLen == 2

\* the state identifiers automata are built from, and the scalars
States == {0, 1}
Chars == {0, 1, 2}

(***************************************************************************)
(* Helpers for the std collections: a set iterated in some order, a map    *)
(* read with a default.                                                    *)
(***************************************************************************)
RECURSIVE SetToSeq(_)
SetToSeq(S) ==
    IF S = {} THEN <<>>
    ELSE LET x == CHOOSE y \in S : TRUE IN <<x>> \o SetToSeq(S \ {x})

Front(s) == SubSeq(s, 1, Len(s) - 1)

\* the empty BTreeMap
EmptyMap == <<>>

(***************************************************************************)
(* RangeSet<char>: the canonical sorted sequence of disjoint, non-adjacent *)
(* inclusive ranges <<first, last>>.                                       *)
(***************************************************************************)
RangeSetElems(rs) == UNION { rs[i][1] .. rs[i][2] : i \in 1 .. Len(rs) }

RECURSIVE RangeSetOf(_)
RangeSetOf(S) ==
    IF S = {} THEN <<>>
    ELSE LET lo == CHOOSE x \in S : \A y \in S : x <= y
             hi == CHOOSE x \in S : /\ x >= lo
                                    /\ \A y \in lo .. x : y \in S
                                    /\ (x + 1) \notin S
         IN  <<  <<lo, hi>>  >> \o RangeSetOf({ y \in S : y > hi })

RangeSetContains(rs, c) == \E i \in 1 .. Len(rs) : rs[i][1] <= c /\ c <= rs[i][2]

RECURSIVE RangeSetLen(_)
RangeSetLen(rs) ==
    IF rs = <<>> THEN 0 ELSE (rs[1][2] - rs[1][1] + 1) + RangeSetLen(Tail(rs))

RangeSetIsEmpty(rs) == rs = <<>>

\* RangeSet::remove of one range
RangeSetRemove(rs, r) == RangeSetOf(RangeSetElems(rs) \ (r[1] .. r[2]))

\* RangeSet::insert of one range: the ranges it touches are merged with it
RangeSetInsert(rs, r) ==
    LET touching == { i \in 1 .. Len(rs) : rs[i][1] <= r[2] + 1 /\ r[1] <= rs[i][2] + 1 }
        firsts == {r[1]} \cup { rs[i][1] : i \in touching }
        lasts == {r[2]} \cup { rs[i][2] : i \in touching }
        lo == CHOOSE x \in firsts : \A y \in firsts : x <= y
        hi == CHOOSE x \in lasts : \A y \in lasts : x >= y
        before(x) == x[2] + 1 < r[1]
        after(x) == r[2] + 1 < x[1]
    IN  SelectSeq(rs, before) \o << <<lo, hi>> >> \o SelectSeq(rs, after)

\* a set of every code point, the surrogates included
any_char_with_surrogates == RangeSetInsert(<<>>, <<0, 1114111>>)

\* any_char(): '\u{0}'..='\u{d7ff}' and '\u{e000}'..='\u{10ffff}'
any_char == RangeSetInsert(RangeSetInsert(<<>>, <<0, 55295>>), <<57344, 1114111>>)

\* RangeSet::gaps: the maximal ranges of scalars outside the set, in order
RangeSetGaps(rs) == RangeSetOf(Chars \ RangeSetElems(rs))

\* the labels of transitions: Option<RangeSet<char>>, None being epsilon
Eps == [some |-> FALSE, set |-> <<>>]
SomeLabel(rs) == [some |-> TRUE, set |-> rs]

\* the character sets automata are built from: a singleton, a range that
\* overlaps it, and a set of two ranges that overlaps both
CharSets == { RangeSetOf({0}), RangeSetOf({0, 1}), RangeSetOf({0, 2}) }
Labels == {Eps} \cup { SomeLabel(rs) : rs \in CharSets }

(***************************************************************************)
(* The NFA and its mutators.                                               *)
(***************************************************************************)
NewNFA == [transitions |-> EmptyMap, initial_states |-> {}, final_states |-> {}]

\* self.transitions.get(q), None being the empty map
TransitionsOf(n, q) ==
    IF q \in DOMAIN n.transitions THEN n.transitions[q] ELSE EmptyMap

\* the target set of (q, label), empty when absent
Targets(n, q, label) ==
    LET t == TransitionsOf(n, q) IN IF label \in DOMAIN t THEN t[label] ELSE {}

\* an add_state that gives the state a new, empty map of transitions
add_state_reset(n, q) == [n EXCEPT !.transitions = (q :> EmptyMap) @@ @]

add_state(n, q) ==
    IF q \in DOMAIN n.transitions THEN n
    ELSE [n EXCEPT !.transitions = @ @@ (q :> EmptyMap)]

\* an add that does not add the target as a state
add_without_target_state(n, source, label, target) ==
    LET old == TransitionsOf(n, source)
        new == (label :> (Targets(n, source, label) \cup {target})) @@ old
    IN  [n EXCEPT !.transitions = (source :> new) @@ @]

add(n, source, label, target) ==
    LET n1 == add_state(n, target)
        old == TransitionsOf(n1, source)
        new == (label :> (Targets(n1, source, label) \cup {target})) @@ old
    IN  [n1 EXCEPT !.transitions = (source :> new) @@ @]

is_initial_state(n, q) == q \in n.initial_states

\* an add_initial_state that reports every state as newly marked
add_initial_state_always_new(n, q) ==
    [nfa |-> [n EXCEPT !.initial_states = @ \cup {q}], ret |-> TRUE]

add_initial_state(n, q) ==
    [nfa |-> [n EXCEPT !.initial_states = @ \cup {q}],
     ret |-> q \notin n.initial_states]

is_final_state(n, q) == q \in n.final_states

add_final_state(n, q) ==
    [nfa |-> [n EXCEPT !.final_states = @ \cup {q}],
     ret |-> q \notin n.final_states]

\* what an automaton holds: its transitions, its marks, and the states
\* that are keys without being an end of a transition
Labels_of(n) == UNION { DOMAIN n.transitions[q] : q \in DOMAIN n.transitions }

Targets_of(n) ==
    UNION { Targets(n, p[1], p[2]) : p \in (DOMAIN n.transitions) \X Labels_of(n) }

\* every state an automaton mentions
StatesOf(n) ==
    (DOMAIN n.transitions) \cup Targets_of(n) \cup n.initial_states \cup n.final_states

Triples(n) ==
    { tr \in (DOMAIN n.transitions) \X Labels_of(n) \X Targets_of(n) :
          tr[3] \in Targets(n, tr[1], tr[2]) }

BareStates(n) ==
    { q \in DOMAIN n.transitions :
          \A tr \in Triples(n) : tr[1] # q /\ tr[3] # q }

Marks(n) ==
    Cardinality(Triples(n)) + Cardinality(BareStates(n))
        + Cardinality(n.initial_states) + Cardinality(n.final_states)

(***************************************************************************)
(* recognizes_empty: depth-first search along epsilon transitions.         *)
(***************************************************************************)
RECURSIVE recognizes_empty_loop(_, _, _)
recognizes_empty_loop(n, stack, visited) ==
    IF stack = <<>> THEN FALSE
    ELSE LET q == stack[Len(stack)]
             rest == Front(stack)
         IN  IF q \in visited THEN recognizes_empty_loop(n, rest, visited)
             ELSE IF is_final_state(n, q) THEN TRUE
             ELSE recognizes_empty_loop(
                      n, rest \o SetToSeq(Targets(n, q, Eps)), visited \cup {q})

\* a search that looks at the initial states only
recognizes_empty_initial_only(n) == \E q \in n.initial_states : is_final_state(n, q)

recognizes_empty(n) ==
    recognizes_empty_loop(n, SetToSeq(n.initial_states), {})

(***************************************************************************)
(* The recognizer of an NFA: Automaton<char> for NFA<Q>.                   *)
(***************************************************************************)
NoState == [some |-> FALSE, states |-> {}, next_states |-> {}, stack |-> <<>>]
VisitingState(states, next_states, stack) ==
    [some |-> TRUE, states |-> states, next_states |-> next_states, stack |-> stack]

\* the epsilon-closure loop shared by initial_state and next_state
RECURSIVE closure_loop(_, _, _)
closure_loop(n, states, stack) ==
    IF stack = <<>> THEN [states |-> states, stack |-> stack]
    ELSE LET q == stack[Len(stack)]
             fresh == Targets(n, q, Eps) \ states
         IN  closure_loop(n, states \cup fresh, Front(stack) \o SetToSeq(fresh))

\* an initial state without the epsilon-closure
initial_state_unclosed(n) ==
    IF n.initial_states = {} THEN NoState
    ELSE VisitingState(n.initial_states, {}, <<>>)

initial_state(n) ==
    LET r == closure_loop(n, n.initial_states, SetToSeq(n.initial_states))
    IN  IF r.states = {} THEN NoState
        ELSE VisitingState(r.states, {}, r.stack)

\* the targets `states` reaches on token: for every q, every non-epsilon
\* label of q that contains the token, every target
token_targets(n, states, token) ==
    UNION { Targets(n, q[1], q[2]) :
              q \in { p \in states \X Labels_of(n) :
                         /\ p[2] \in DOMAIN TransitionsOf(n, p[1])
                         /\ p[2].some
                         /\ RangeSetContains(p[2].set, token) } }

\* a step that hands the old current set back without clearing it
next_state_uncleared(n, s, token) ==
    LET fresh == token_targets(n, s.states, token) \ s.next_states
        r == closure_loop(n, s.next_states \cup fresh, s.stack \o SetToSeq(fresh))
    IN  IF r.states = {} THEN NoState
        ELSE VisitingState(r.states, s.states, r.stack)

\* a step without the epsilon-closure
next_state_unclosed(n, s, token) ==
    LET next == s.next_states \cup token_targets(n, s.states, token)
    IN  IF next = {} THEN NoState ELSE VisitingState(next, {}, <<>>)

next_state(n, s, token) ==
    LET fresh == token_targets(n, s.states, token) \ s.next_states
        r == closure_loop(n, s.next_states \cup fresh, s.stack \o SetToSeq(fresh))
    IN  IF r.states = {} THEN NoState
        ELSE VisitingState(r.states, {}, r.stack)

recognizer_is_final_state(n, s) == \E q \in s.states : q \in n.final_states

(***************************************************************************)
(* Subset construction.                                                    *)
(***************************************************************************)
RECURSIVE modulo_epsilon_loop(_, _, _)
modulo_epsilon_loop(n, states, stack) ==
    IF stack = <<>> THEN states
    ELSE LET q == stack[Len(stack)]
             rest == Front(stack)
         IN  IF q \in states THEN modulo_epsilon_loop(n, states, rest)
             ELSE modulo_epsilon_loop(
                      n, states \cup {q}, rest \o SetToSeq(Targets(n, q, Eps)))

\* a closure that follows the epsilon transitions of the given states only
modulo_epsilon_state_one_step(n, qs) ==
    qs \cup UNION { Targets(n, q, Eps) : q \in qs }

modulo_epsilon_state(n, qs) == modulo_epsilon_loop(n, {}, SetToSeq(qs))

\* RangeMap<char, V>: the value of every covered scalar.  RangeMap::update
\* applies the merge to the part of the range already covered, scalar by
\* scalar, and to the rest with None.
EmptyRangeMap == <<>>

\* an update that replaces what the range already maps to
RangeMapUpdate_replacing(map, range, added) ==
    [c \in (DOMAIN map) \cup (range[1] .. range[2]) |->
        IF c \in range[1] .. range[2] THEN added ELSE map[c]]

RangeMapUpdate(map, range, added) ==
    [c \in (DOMAIN map) \cup (range[1] .. range[2]) |->
        IF c \in range[1] .. range[2]
        THEN (IF c \in DOMAIN map THEN map[c] ELSE {}) \cup added
        ELSE map[c]]

\* the entries of a RangeMap in order: the maximal runs of adjacent scalars
\* with one value, as <<range, value>>
RECURSIVE RangeMapEntries(_)
RangeMapEntries(map) ==
    IF DOMAIN map = {} THEN <<>>
    ELSE LET D == DOMAIN map
             lo == CHOOSE x \in D : \A y \in D : x <= y
             hi == CHOOSE x \in D :
                       /\ x >= lo
                       /\ \A y \in lo .. x : y \in D /\ map[y] = map[lo]
                       /\ ~((x + 1) \in D /\ map[x + 1] = map[lo])
         IN  << <<  <<lo, hi>>, map[lo] >> >>
                 \o RangeMapEntries([c \in { y \in D : y > hi } |-> map[c]])

\* the updates determinize_transitions_for makes, in the order of its loops:
\* for q in states, for (label, targets) of q, for range in label
RECURSIVE RangeUpdates(_, _, _)
RangeUpdates(n, qs, closed) ==
    IF qs = <<>> THEN <<>>
    ELSE LET q == Head(qs)
             labels == SetToSeq({ l \in DOMAIN TransitionsOf(n, q) : l.some })
             of_label(l) ==
                 LET added == IF closed
                              THEN UNION { modulo_epsilon_state(n, {t}) :
                                             t \in n.transitions[q][l] }
                              ELSE n.transitions[q][l]
                 IN  [i \in 1 .. Len(l.set) |-> <<l.set[i], added>>]
             RECURSIVE of_labels(_)
             of_labels(ls) ==
                 IF ls = <<>> THEN <<>> ELSE of_label(Head(ls)) \o of_labels(Tail(ls))
         IN  of_labels(labels) \o RangeUpdates(n, Tail(qs), closed)

RECURSIVE ApplyUpdates(_, _)
ApplyUpdates(map, updates) ==
    IF updates = <<>> THEN map
    ELSE ApplyUpdates(RangeMapUpdate(map, Head(updates)[1], Head(updates)[2]),
                      Tail(updates))

\* the table without the epsilon-closure of the targets
determinize_transitions_for_unclosed(n, states) ==
    RangeMapEntries(ApplyUpdates(EmptyRangeMap, RangeUpdates(n, SetToSeq(states), FALSE)))

determinize_transitions_for(n, states) ==
    RangeMapEntries(ApplyUpdates(EmptyRangeMap, RangeUpdates(n, SetToSeq(states), TRUE)))

\* the subset-interning functions callers pass to determinize
Intern(f, S) ==
    CASE f = "set" -> S
      [] f = "bits" -> LET RECURSIVE sum(_)
                           sum(T) == IF T = {} THEN 0
                                     ELSE LET x == CHOOSE y \in T : TRUE
                                          IN  2 ^ x + sum(T \ {x})
                       IN  sum(S)
      [] f = "size" -> Cardinality(S)

InjectiveInterns == {"set", "bits"}

RECURSIVE determinize_loop(_, _, _, _, _, _)
determinize_loop(n, f, stack, visited_states, final_states, transitions) ==
    IF stack = <<>>
    THEN [final_states |-> final_states, transitions |-> transitions]
    ELSE LET det_q == stack[Len(stack)]
             rest == Front(stack)
             r == Intern(f, det_q)
         IN  IF r \in visited_states
             THEN determinize_loop(n, f, rest, visited_states, final_states, transitions)
             ELSE LET map == determinize_transitions_for(n, det_q)
                      entry(label) == CHOOSE i \in 1 .. Len(map) : map[i][1] = label
                      r_map == [label \in { map[i][1] : i \in 1 .. Len(map) } |->
                                  Intern(f, map[entry(label)][2])]
                      pushed == [i \in 1 .. Len(map) |-> map[i][2]]
                  IN  determinize_loop(
                          n, f, rest \o pushed, visited_states \cup {r},
                          IF det_q \cap n.final_states # {}
                          THEN final_states \cup {r} ELSE final_states,
                          (r :> r_map) @@ transitions)

\* a finality test that asks every state of the subset to be final
contains_final_state_all(n, det_q) == \A q \in det_q : q \in n.final_states

\* det_q.iter().any(|q| self.final_states.contains(q))
contains_final_state(n, det_q) == \E q \in det_q : q \in n.final_states

\* the body of the loop for a subset det_q whose image r is new, on the loop
\* state st.  The automaton is borrowed for the whole call, so the table of
\* a subset is the same whenever it is built: st.tables holds the result of
\* determinize_transitions_for for every subset.  popped and expanded record
\* the subsets popped and the images expanded.
determinize_expand(n, st, det_q, r) ==
    LET map == st.tables[det_q]
        r_map == [label \in { map[i][1] : i \in 1 .. Len(map) } |->
                    Intern(st.f, map[CHOOSE i \in 1 .. Len(map) : map[i][1] = label][2])]
    IN  [st EXCEPT !.stack = Front(@) \o [i \in 1 .. Len(map) |-> map[i][2]],
                   !.visited_states = @ \cup {r},
                   !.final_states = IF contains_final_state(n, det_q)
                                    THEN @ \cup {r} ELSE @,
                   !.transitions = (r :> r_map) @@ @,
                   !.popped = @ \cup {det_q},
                   !.expanded = Append(@, r)]

\* an iteration that leaves a subset whose image was visited on the stack
determinize_step_never_popping(n, st) ==
    LET det_q == st.stack[Len(st.stack)]
        r == Intern(st.f, det_q)
    IN  IF r \in st.visited_states
        THEN [st EXCEPT !.popped = @ \cup {det_q}]
        ELSE determinize_expand(n, st, det_q, r)

\* one iteration of the worklist loop of determinize
determinize_step(n, st) ==
    LET det_q == st.stack[Len(st.stack)]
        r == Intern(st.f, det_q)
    IN  IF r \in st.visited_states
        THEN [st EXCEPT !.stack = Front(@), !.popped = @ \cup {det_q}]
        ELSE determinize_expand(n, st, det_q, r)

determinize(n, f) ==
    LET initial == modulo_epsilon_state(n, n.initial_states)
        res == determinize_loop(n, f, <<initial>>, {}, {}, EmptyMap)
    IN  [initial_state |-> Intern(f, initial),
         final_states |-> res.final_states,
         transitions |-> res.transitions]

(***************************************************************************)
(* The recognizer of a DFA: the state is the current state identifier; a   *)
(* step takes the one outgoing range that contains the token.              *)
(***************************************************************************)
NoDetState == [some |-> FALSE, q |-> 0]
DetState(q) == [some |-> TRUE, q |-> q]

dfa_initial_state(d) == DetState(d.initial_state)

dfa_next_state(d, s, token) ==
    LET t == IF s.q \in DOMAIN d.transitions THEN d.transitions[s.q] ELSE EmptyMap
        hit == { range \in DOMAIN t : range[1] <= token /\ token <= range[2] }
    IN  IF hit = {} THEN NoDetState
        ELSE DetState(t[CHOOSE range \in hit : TRUE])

dfa_is_final_state(d, s) == s.q \in d.final_states

(***************************************************************************)
(* charset_intersection: the first set minus every gap of the second.      *)
(***************************************************************************)
RECURSIVE remove_all(_, _)
remove_all(result, gaps) ==
    IF gaps = <<>> THEN result
    ELSE remove_all(RangeSetRemove(result, Head(gaps)), Tail(gaps))

\* only the first gap of the second set removed
charset_intersection_first_gap(a, b) ==
    IF RangeSetGaps(b) = <<>> THEN a ELSE RangeSetRemove(a, Head(RangeSetGaps(b)))

\* the gaps of the first set removed instead of those of the second
charset_intersection_wrong_gaps(a, b) == remove_all(a, RangeSetGaps(a))

charset_intersection(a, b) == remove_all(a, RangeSetGaps(b))

(***************************************************************************)
(* mapped_union: the other automaton merged into self, its states renamed. *)
(***************************************************************************)
\* the renamings callers pass to mapped_union
Rename(f, q) ==
    CASE f = "id" -> q
      [] f = "shift" -> q + 2
      [] f = "zero" -> 0

Renamings == {"id", "shift", "zero"}

\* the transitions of f(q) after the entries of q in other are merged in
merged_transitions(this, theirs, f) ==
    [label \in (DOMAIN this) \cup (DOMAIN theirs) |->
        (IF label \in DOMAIN this THEN this[label] ELSE {})
            \cup (IF label \in DOMAIN theirs
                  THEN { Rename(f, t) : t \in theirs[label] } ELSE {})]

RECURSIVE mapped_union_loop(_, _, _, _)
mapped_union_loop(transitions, o, qs, f) ==
    IF qs = <<>> THEN transitions
    ELSE LET q == Head(qs)
             this == IF Rename(f, q) \in DOMAIN transitions
                     THEN transitions[Rename(f, q)] ELSE EmptyMap
         IN  mapped_union_loop(
                 (Rename(f, q) :> merged_transitions(this, o.transitions[q], f))
                     @@ transitions,
                 o, Tail(qs), f)

\* a union that forgets the initial states of the other automaton
mapped_union_no_initial(n, o, f) ==
    [transitions |-> mapped_union_loop(n.transitions, o, SetToSeq(DOMAIN o.transitions), f),
     initial_states |-> n.initial_states,
     final_states |-> n.final_states \cup { Rename(f, q) : q \in o.final_states }]

mapped_union(n, o, f) ==
    [transitions |-> mapped_union_loop(n.transitions, o, SetToSeq(DOMAIN o.transitions), f),
     initial_states |-> n.initial_states \cup { Rename(f, q) : q \in o.initial_states },
     final_states |-> n.final_states \cup { Rename(f, q) : q \in o.final_states }]

(***************************************************************************)
(* product: the automaton on the pairs of states reachable from the pairs  *)
(* of initial states.                                                      *)
(***************************************************************************)
\* the pair-naming functions callers pass to product
PairName(f, a, b) ==
    CASE f = "pair" -> <<a, b>>
      [] f = "index" -> 2 * a + b
      [] f = "first" -> a

InjectivePairNames == {"pair", "index"}

\* the pairs of labels of a and b the product combines: two character sets
\* with a common scalar, or two epsilons
\* label pairs combined without asking for a common scalar
label_pairs_any(A, B, a, b) ==
    { p \in (DOMAIN TransitionsOf(A, a)) \X (DOMAIN TransitionsOf(B, b)) :
        p[1].some = p[2].some }

label_pairs(A, B, a, b) ==
    { p \in (DOMAIN TransitionsOf(A, a)) \X (DOMAIN TransitionsOf(B, b)) :
        \/ /\ p[1].some
           /\ p[2].some
           /\ ~RangeSetIsEmpty(charset_intersection(p[1].set, p[2].set))
        \/ ~p[1].some /\ ~p[2].some }

product_label(p) ==
    IF p[1].some THEN SomeLabel(charset_intersection(p[1].set, p[2].set)) ELSE Eps

\* the successors of the pair (a, b), as <<name, sa, sb>>, under one label
product_successors(A, B, f, a, b, label) ==
    { << PairName(f, s[1], s[2]), s[1], s[2] >> :
        s \in UNION { A.transitions[a][p[1]] \X B.transitions[b][p[2]] :
                        p \in { x \in label_pairs(A, B, a, b) : product_label(x) = label } } }

\* the transitions of the pair (a, b)
product_transitions(A, B, f, a, b) ==
    [label \in { product_label(p) : p \in label_pairs(A, B, a, b) } |->
        { s[1] : s \in product_successors(A, B, f, a, b, label) }]

RECURSIVE product_loop(_, _, _, _, _, _)
product_loop(A, B, f, stack, visited, result) ==
    IF stack = <<>> THEN result
    ELSE LET top == stack[Len(stack)]
             q == top[1]
             a == top[2]
             b == top[3]
             rest == Front(stack)
         IN  IF q \in visited THEN product_loop(A, B, f, rest, visited, result)
             ELSE LET transitions == product_transitions(A, B, f, a, b)
                      pushed == SetToSeq(UNION { product_successors(A, B, f, a, b, label) :
                                                  label \in DOMAIN transitions })
                      marked == IF is_final_state(A, a) /\ is_final_state(B, b)
                                THEN add_final_state(result, q).nfa ELSE result
                  IN  product_loop(
                          A, B, f, rest \o pushed, visited \cup {q},
                          [marked EXCEPT !.transitions = (q :> transitions) @@ @])

product(A, B, f) ==
    product_loop(A, B, f,
        SetToSeq({ << PairName(f, p[1], p[2]), p[1], p[2] >> :
                     p \in A.initial_states \X B.initial_states }),
        {},
        [NewNFA EXCEPT !.initial_states =
            { PairName(f, p[1], p[2]) : p \in A.initial_states \X B.initial_states }])

(***************************************************************************)
(* Singleton detection: the walk of is_singleton and to_singleton from the *)
(* initial state along single-scalar transitions.                          *)
(***************************************************************************)
NoString == [some |-> FALSE, string |-> <<>>]
SomeString(w) == [some |-> TRUE, string |-> w]

\* one iteration of the `while let` loop at state q: "none" (return None or
\* false), "break" (leave the loop) or "next" (push c, go on at q)
singleton_step(n, q) ==
    IF q \notin DOMAIN n.transitions THEN [kind |-> "break", c |-> 0, q |-> q]
    ELSE LET q_transitions == n.transitions[q]
         IN  IF Cardinality(DOMAIN q_transitions) > 1
             THEN [kind |-> "none", c |-> 0, q |-> q]
             ELSE IF DOMAIN q_transitions = {}
             THEN [kind |-> "break", c |-> 0, q |-> q]
             ELSE LET label == CHOOSE l \in DOMAIN q_transitions : TRUE
                      r == q_transitions[label]
                  IN  IF Cardinality(r) > 1 THEN [kind |-> "none", c |-> 0, q |-> q]
                      ELSE IF r = {} THEN [kind |-> "break", c |-> 0, q |-> q]
                      ELSE IF label.some /\ RangeSetLen(label.set) = 1
                      THEN [kind |-> "next", c |-> label.set[1][1],
                            q |-> CHOOSE t \in r : TRUE]
                      ELSE [kind |-> "none", c |-> 0, q |-> q]

(***************************************************************************)
(* U32StateBuilder, its counter at the width CounterBits.                  *)
(***************************************************************************)
\* u32::MAX at the reduced width
CountMax == 2 ^ CounterBits - 1

\* Result<u32, TooManyStates>
TooManyStates == [ok |-> FALSE, q |-> 0]
Ok(q) == [ok |-> TRUE, q |-> q]

\* a builder whose last identifier within the limit is refused
builder_next_state_off_by_one(b, n) ==
    IF b.count + 1 > CountMax
    THEN [builder |-> b, nfa |-> n, ret |-> TooManyStates]
    ELSE IF b.count + 1 >= b.limit
    THEN [builder |-> [b EXCEPT !.count = @ + 1], nfa |-> n, ret |-> TooManyStates]
    ELSE [builder |-> [b EXCEPT !.count = @ + 1],
          nfa |-> add_state(n, b.count), ret |-> Ok(b.count)]

\* a builder whose counter wraps around (wrapping_add in place of
\* checked_add)
builder_next_state_wrapping(b, n) ==
    LET count == (b.count + 1) % (2 ^ CounterBits)
    IN  IF count > b.limit
        THEN [builder |-> [b EXCEPT !.count = count], nfa |-> n, ret |-> TooManyStates]
        ELSE [builder |-> [b EXCEPT !.count = count],
              nfa |-> add_state(n, b.count), ret |-> Ok(b.count)]

\* checked_add(1) fails on overflow and leaves the counter as it was; a
\* counter past the limit stays advanced
builder_next_state(b, n) ==
    IF b.count + 1 > CountMax
    THEN [builder |-> b, nfa |-> n, ret |-> TooManyStates]
    ELSE IF b.count + 1 > b.limit
    THEN [builder |-> [b EXCEPT !.count = @ + 1], nfa |-> n, ret |-> TooManyStates]
    ELSE [builder |-> [b EXCEPT !.count = @ + 1],
          nfa |-> add_state(n, b.count), ret |-> Ok(b.count)]

(***************************************************************************)
(* The state machine.  An automaton is built by its mutators from          *)
(* NFA::new(); the read-only operations then borrow it, so that no mutator *)
(* runs while a recognizer state or a result refers to it.                 *)
(***************************************************************************)
NoRet == [op |-> "none", val |-> FALSE]
NoWalk == [q |-> 0, result |-> <<>>, at |-> "idle", tick |-> 0]
NoBuilder == [count |-> 0, limit |-> 0, calls |-> 0]

InitCommon ==
    /\ nfa = NewNFA
    /\ other = NewNFA
    /\ builder = NoBuilder
    /\ pc = "build"
    /\ vs = NoState
    /\ word = <<>>
    /\ ret = NoRet
    /\ out = NewNFA
    /\ walk = NoWalk

Init == InitCommon

Building == pc = "build" /\ Marks(nfa) < MaxMarks

AddState(q) ==
    /\ nfa' = add_state(nfa, q)
    /\ ret' = NoRet
    /\ UNCHANGED <<other, builder, pc, vs, word, out, walk>>

Add(source, label, target) ==
    /\ nfa' = add(nfa, source, label, target)
    /\ ret' = NoRet
    /\ UNCHANGED <<other, builder, pc, vs, word, out, walk>>

AddInitialState(q) ==
    /\ nfa' = add_initial_state(nfa, q).nfa
    /\ ret' = [op |-> "add_initial_state", val |-> add_initial_state(nfa, q).ret]
    /\ UNCHANGED <<other, builder, pc, vs, word, out, walk>>

AddFinalState(q) ==
    /\ nfa' = add_final_state(nfa, q).nfa
    /\ ret' = [op |-> "add_final_state", val |-> add_final_state(nfa, q).ret]
    /\ UNCHANGED <<other, builder, pc, vs, word, out, walk>>

Build ==
    /\ Building
    /\ \/ \E q \in States : AddState(q)
       \/ \E s \in States, l \in Labels, t \in States : Add(s, l, t)
       \/ \E q \in States : AddInitialState(q)
       \/ \E q \in States : AddFinalState(q)

Determinize(f) ==
    /\ pc = "build"
    /\ out' = determinize(nfa, f)
    /\ ret' = [op |-> "determinize", val |-> f]
    /\ pc' = "done"
    /\ UNCHANGED <<nfa, other, builder, vs, word, walk>>

RecognizesEmpty ==
    /\ pc = "build"
    /\ ret' = [op |-> "recognizes_empty", val |-> recognizes_empty(nfa)]
    /\ pc' = "done"
    /\ UNCHANGED <<nfa, other, builder, vs, word, out, walk>>

InitialState ==
    /\ pc = "build"
    /\ vs' = initial_state(nfa)
    /\ word' = <<>>
    /\ ret' = [op |-> "initial_state", val |-> FALSE]
    /\ pc' = "run"
    /\ UNCHANGED <<nfa, other, builder, out, walk>>

NextState(token) ==
    /\ pc = "run"
    /\ vs.some
    /\ Len(word) < MaxLen
    /\ vs' = next_state(nfa, vs, token)
    /\ word' = Append(word, token)
    /\ ret' = [op |-> "next_state", val |-> FALSE]
    /\ UNCHANGED <<nfa, other, builder, pc, out, walk>>

(***************************************************************************)
(* Two automata, built side by side, then combined.                        *)
(***************************************************************************)
\* the labels the automata of a pair are built from: two overlapping sets
\* for self and one set that meets both for other
SelfCharLabels == { SomeLabel(RangeSetOf({0, 1})), SomeLabel(RangeSetOf({0, 2})) }
OtherCharLabels == { SomeLabel(RangeSetOf({1, 2})) }
\* with epsilon transitions: epsilon and one set each, the two sets overlapping
SelfEpsLabels == { Eps, SomeLabel(RangeSetOf({0, 1})) }
OtherEpsLabels == { Eps, SomeLabel(RangeSetOf({1, 2})) }

PairMarks == Marks(nfa) + Marks(other)

OtherAdd(source, label, target) ==
    /\ other' = add(other, source, label, target)
    /\ ret' = NoRet
    /\ UNCHANGED <<nfa, builder, pc, vs, word, out, walk>>

OtherAddInitialState(q) ==
    /\ other' = add_initial_state(other, q).nfa
    /\ ret' = NoRet
    /\ UNCHANGED <<nfa, builder, pc, vs, word, out, walk>>

OtherAddFinalState(q) ==
    /\ other' = add_final_state(other, q).nfa
    /\ ret' = NoRet
    /\ UNCHANGED <<nfa, builder, pc, vs, word, out, walk>>

SelfAdd(source, label, target) ==
    /\ nfa' = add(nfa, source, label, target)
    /\ ret' = NoRet
    /\ UNCHANGED <<other, builder, pc, vs, word, out, walk>>

SelfAddInitialState(q) ==
    /\ nfa' = add_initial_state(nfa, q).nfa
    /\ ret' = NoRet
    /\ UNCHANGED <<other, builder, pc, vs, word, out, walk>>

SelfAddFinalState(q) ==
    /\ nfa' = add_final_state(nfa, q).nfa
    /\ ret' = NoRet
    /\ UNCHANGED <<other, builder, pc, vs, word, out, walk>>

BuildPair(self_labels, other_labels, bound) ==
    /\ pc = "build"
    /\ PairMarks < bound
    /\ \/ \E s \in States, l \in self_labels, t \in States : SelfAdd(s, l, t)
       \/ \E q \in States : SelfAddInitialState(q)
       \/ \E q \in States : SelfAddFinalState(q)
       \/ \E s \in States, l \in other_labels, t \in States : OtherAdd(s, l, t)
       \/ \E q \in States : OtherAddInitialState(q)
       \/ \E q \in States : OtherAddFinalState(q)

Product(f) ==
    /\ pc = "build"
    /\ out' = product(nfa, other, f)
    /\ ret' = [op |-> "product", val |-> f]
    /\ pc' = "done"
    /\ UNCHANGED <<nfa, other, builder, vs, word, walk>>

\* self is replaced by the union; out keeps the automaton self was
MappedUnion(f) ==
    /\ pc = "build"
    /\ nfa' = mapped_union(nfa, other, f)
    /\ out' = nfa
    /\ ret' = [op |-> "mapped_union", val |-> f]
    /\ pc' = "done"
    /\ UNCHANGED <<other, builder, vs, word, walk>>

\* products of automata without epsilon transitions
NextProduct ==
    \/ BuildPair(SelfCharLabels, OtherCharLabels, MaxPairMarks)
    \/ \E f \in InjectivePairNames : Product(f)

SpecProduct == Init /\ [][NextProduct]_vars

\* products of automata with epsilon transitions
NextProductEps ==
    \/ BuildPair(SelfEpsLabels, OtherEpsLabels, MaxPairMarks)
    \/ \E f \in InjectivePairNames : Product(f)

SpecProductEps == Init /\ [][NextProductEps]_vars

\* products of automata whose labels may have no scalar in common
SelfReachLabels == { Eps, SomeLabel(RangeSetOf({0, 1})) }
OtherReachLabels == { Eps, SomeLabel(RangeSetOf({1, 2})), SomeLabel(RangeSetOf({2})) }

NextProductReach ==
    \/ BuildPair(SelfReachLabels, OtherReachLabels, MaxReachMarks)
    \/ \E f \in InjectivePairNames : Product(f)

SpecProductReach == Init /\ [][NextProductReach]_vars

NextUnion ==
    \/ BuildPair(SelfEpsLabels, SelfEpsLabels, MaxUnionMarks)
    \/ \E f \in Renamings : MappedUnion(f)

SpecUnion == Init /\ [][NextUnion]_vars

(***************************************************************************)
(* is_singleton and to_singleton, one loop iteration at a time.  tick is   *)
(* the parity of the number of iterations made.                            *)
(***************************************************************************)
ToSingletonCall ==
    /\ pc = "build"
    /\ IF Cardinality(nfa.initial_states) > 1
       THEN /\ ret' = [op |-> "to_singleton", val |-> NoString]
            /\ pc' = "done"
            /\ walk' = walk
       ELSE IF nfa.initial_states = {}
       THEN /\ ret' = [op |-> "to_singleton", val |-> SomeString(<<>>)]
            /\ pc' = "done"
            /\ walk' = walk
       ELSE /\ ret' = NoRet
            /\ pc' = "walk"
            /\ walk' = [q |-> CHOOSE q \in nfa.initial_states : TRUE,
                        result |-> <<>>, at |-> "to_singleton", tick |-> 0]
    /\ UNCHANGED <<nfa, other, builder, vs, word, out>>

ToSingletonStep ==
    /\ pc = "walk"
    /\ walk.at = "to_singleton"
    /\ Len(walk.result) < MaxWalk
    /\ LET step == singleton_step(nfa, walk.q)
       IN  CASE step.kind = "none" ->
                  /\ ret' = [op |-> "to_singleton", val |-> NoString]
                  /\ pc' = "done"
                  /\ walk' = walk
             [] step.kind = "break" ->
                  /\ ret' = [op |-> "to_singleton", val |-> SomeString(walk.result)]
                  /\ pc' = "done"
                  /\ walk' = walk
             [] step.kind = "next" ->
                  /\ walk' = [walk EXCEPT !.q = step.q,
                                          !.result = Append(@, step.c),
                                          !.tick = 1 - @]
                  /\ UNCHANGED <<ret, pc>>
    /\ UNCHANGED <<nfa, other, builder, vs, word, out>>

IsSingletonCall ==
    /\ pc = "build"
    /\ IF Cardinality(nfa.initial_states) > 1
       THEN /\ ret' = [op |-> "is_singleton", val |-> FALSE]
            /\ pc' = "done"
            /\ walk' = walk
       ELSE IF nfa.initial_states = {}
       THEN /\ ret' = [op |-> "is_singleton", val |-> TRUE]
            /\ pc' = "done"
            /\ walk' = walk
       ELSE /\ ret' = NoRet
            /\ pc' = "walk"
            /\ walk' = [q |-> CHOOSE q \in nfa.initial_states : TRUE,
                        result |-> <<>>, at |-> "is_singleton", tick |-> 0]
    /\ UNCHANGED <<nfa, other, builder, vs, word, out>>

\* an is_singleton that asks the state the walk ends at to be final
IsSingletonStep_final_only ==
    /\ pc = "walk"
    /\ walk.at = "is_singleton"
    /\ LET step == singleton_step(nfa, walk.q)
       IN  CASE step.kind = "none" ->
                  /\ ret' = [op |-> "is_singleton", val |-> FALSE]
                  /\ pc' = "done"
                  /\ walk' = walk
             [] step.kind = "break" ->
                  /\ ret' = [op |-> "is_singleton", val |-> is_final_state(nfa, walk.q)]
                  /\ pc' = "done"
                  /\ walk' = walk
             [] step.kind = "next" ->
                  /\ walk' = [walk EXCEPT !.q = step.q, !.tick = 1 - @]
                  /\ UNCHANGED <<ret, pc>>
    /\ UNCHANGED <<nfa, other, builder, vs, word, out>>

IsSingletonStep ==
    /\ pc = "walk"
    /\ walk.at = "is_singleton"
    /\ LET step == singleton_step(nfa, walk.q)
       IN  CASE step.kind = "none" ->
                  /\ ret' = [op |-> "is_singleton", val |-> FALSE]
                  /\ pc' = "done"
                  /\ walk' = walk
             [] step.kind = "break" ->
                  /\ ret' = [op |-> "is_singleton", val |-> TRUE]
                  /\ pc' = "done"
                  /\ walk' = walk
             [] step.kind = "next" ->
                  /\ walk' = [walk EXCEPT !.q = step.q, !.tick = 1 - @]
                  /\ UNCHANGED <<ret, pc>>
    /\ UNCHANGED <<nfa, other, builder, vs, word, out>>

NextSingleton ==
    \/ Build
    \/ ToSingletonCall
    \/ ToSingletonStep
    \/ IsSingletonCall
    \/ IsSingletonStep

\* a walk that was started goes on: its loop is the only thing running
SpecSingleton ==
    /\ Init
    /\ [][NextSingleton]_vars
    /\ WF_vars(ToSingletonStep)
    /\ WF_vars(IsSingletonStep)

(***************************************************************************)
(* The state builder: a builder with any limit, called again and again on  *)
(* a new automaton.  calls counts the calls made (it is not a field of the *)
(* builder); the calls go on past the overflow of the counter.             *)
(***************************************************************************)
MaxCalls == CountMax + 3

InitBuilder ==
    /\ nfa = NewNFA
    /\ other = NewNFA
    /\ builder \in { [count |-> 0, limit |-> l, calls |-> 0] : l \in 0 .. CountMax }
    /\ pc = "build"
    /\ vs = NoState
    /\ word = <<>>
    /\ ret = NoRet
    /\ out = NewNFA
    /\ walk = NoWalk

BuilderNextState ==
    /\ pc = "build"
    /\ builder.calls < MaxCalls
    /\ LET r == builder_next_state(builder, nfa)
       IN  /\ builder' = [r.builder EXCEPT !.calls = @ + 1]
           /\ nfa' = r.nfa
           /\ ret' = [op |-> "builder_next_state", val |-> r.ret]
    /\ UNCHANGED <<other, pc, vs, word, out, walk>>

NextBuilder == BuilderNextState

SpecBuilder == InitBuilder /\ [][NextBuilder]_vars

(***************************************************************************)
(* charset_intersection called on two character sets.  ret holds the call: *)
(* its arguments, then its arguments and its result.                       *)
(***************************************************************************)
\* every RangeSet<char> over the scalars of the model
AllCharSets == { RangeSetOf(S) : S \in SUBSET Chars }

InitCharset ==
    /\ nfa = NewNFA
    /\ other = NewNFA
    /\ builder = NoBuilder
    /\ pc = "build"
    /\ vs = NoState
    /\ word = <<>>
    /\ ret \in { [op |-> "call", val |-> [a |-> a, b |-> b, result |-> <<>>]] :
                    a \in AllCharSets, b \in AllCharSets }
    /\ out = NewNFA
    /\ walk = NoWalk

CharsetIntersection ==
    /\ ret.op = "call"
    /\ ret' = [op |-> "charset_intersection",
               val |-> [ret.val EXCEPT !.result = charset_intersection(ret.val.a, ret.val.b)]]
    /\ UNCHANGED <<nfa, other, builder, pc, vs, word, out, walk>>

NextCharset == CharsetIntersection

SpecCharset == InitCharset /\ [][NextCharset]_vars

(***************************************************************************)
(* The mutators, called in any order on one automaton: add_state, add,     *)
(* add_initial_state, add_final_state, mapped_union with a second          *)
(* automaton built beside it, and next_state of a builder.                 *)
(***************************************************************************)
InitMutators ==
    /\ nfa = NewNFA
    /\ other = NewNFA
    /\ builder = [count |-> 0, limit |-> Cardinality(States), calls |-> 0]
    /\ pc = "build"
    /\ vs = NoState
    /\ word = <<>>
    /\ ret = NoRet
    /\ out = NewNFA
    /\ walk = NoWalk

SelfAddState(q) ==
    /\ pc = "build"
    /\ PairMarks < MaxMutMarks
    /\ nfa' = add_state(nfa, q)
    /\ ret' = [op |-> "add_state", val |-> q]
    /\ UNCHANGED <<other, builder, pc, vs, word, out, walk>>

\* other is moved into the call: the next one is built from NFA::new()
SelfMappedUnion(f) ==
    /\ pc = "build"
    /\ other # NewNFA
    /\ nfa' = mapped_union(nfa, other, f)
    /\ other' = NewNFA
    /\ ret' = [op |-> "mapped_union", val |-> f]
    /\ UNCHANGED <<builder, pc, vs, word, out, walk>>

\* the builder is called until its first failure
SelfBuilderNextState ==
    /\ pc = "build"
    /\ builder.count <= builder.limit
    /\ LET r == builder_next_state(builder, nfa)
       IN  /\ builder' = [r.builder EXCEPT !.calls = @ + 1]
           /\ nfa' = r.nfa
           /\ ret' = [op |-> "builder_next_state", val |-> r.ret]
    /\ UNCHANGED <<other, pc, vs, word, out, walk>>

NextMutators ==
    \/ BuildPair(SelfEpsLabels, SelfEpsLabels, MaxMutMarks)
    \/ \E q \in States : SelfAddState(q)
    \/ \E f \in Renamings : SelfMappedUnion(f)
    \/ SelfBuilderNextState

SpecMutators == InitMutators /\ [][NextMutators]_vars

(***************************************************************************)
(* The universe automaton: one transition labelled any_char() from the     *)
(* initial state to a final state, fed one code point.                     *)
(***************************************************************************)
\* the code points: the scalars and the surrogates between them
CodePoints == 0 .. 1114111

UniverseNFA ==
    add_final_state(
        add_initial_state(add(NewNFA, 0, SomeLabel(any_char), 1), 0).nfa, 1).nfa

InitUniverse ==
    /\ nfa = UniverseNFA
    /\ other = NewNFA
    /\ builder = NoBuilder
    /\ pc = "build"
    /\ vs = NoState
    /\ word = <<>>
    /\ ret = NoRet
    /\ out = NewNFA
    /\ walk = NoWalk

\* one step, on any code point
UniverseNextState ==
    /\ pc = "run"
    /\ vs.some
    /\ word = <<>>
    /\ \E token \in CodePoints :
          /\ vs' = next_state(nfa, vs, token)
          /\ word' = Append(word, token)
    /\ ret' = [op |-> "next_state", val |-> FALSE]
    /\ UNCHANGED <<nfa, other, builder, pc, out, walk>>

NextUniverse ==
    \/ InitialState
    \/ UniverseNextState

SpecUniverse == InitUniverse /\ [][NextUniverse]_vars

(***************************************************************************)
(* determinize, one iteration of its worklist loop at a time, with any     *)
(* interning function callers may pass, injective or not.  tick is the     *)
(* parity of the number of iterations made.                                *)
(***************************************************************************)
Interns == {"set", "bits", "size"}

DeterminizeCall(f) ==
    /\ pc = "build"
    /\ pc' = "walk"
    /\ walk' = [at |-> "determinize", f |-> f, tick |-> 0,
                stack |-> << modulo_epsilon_state(nfa, nfa.initial_states) >>,
                visited_states |-> {}, final_states |-> {}, transitions |-> EmptyMap,
                tables |-> [S \in SUBSET StatesOf(nfa) |->
                              determinize_transitions_for(nfa, S)],
                popped |-> {}, expanded |-> <<>>]
    /\ UNCHANGED <<nfa, other, builder, vs, word, ret, out>>

DeterminizeStep ==
    /\ pc = "walk"
    /\ walk.at = "determinize"
    /\ IF walk.stack = <<>>
       THEN /\ out' = [initial_state |->
                          Intern(walk.f, modulo_epsilon_state(nfa, nfa.initial_states)),
                       final_states |-> walk.final_states,
                       transitions |-> walk.transitions]
            /\ ret' = [op |-> "determinize", val |-> walk.f]
            /\ pc' = "done"
            /\ walk' = walk
       ELSE /\ walk' = [determinize_step(nfa, walk) EXCEPT !.tick = 1 - @]
            /\ UNCHANGED <<out, ret, pc>>
    /\ UNCHANGED <<nfa, other, builder, vs, word>>

\* the mutators, on an automaton within MaxDetMarks
BuildSmall ==
    /\ pc = "build"
    /\ Marks(nfa) < MaxDetMarks
    /\ \/ \E q \in States : AddState(q)
       \/ \E s \in States, l \in Labels, t \in States : Add(s, l, t)
       \/ \E q \in States : AddInitialState(q)
       \/ \E q \in States : AddFinalState(q)

NextDeterminize ==
    \/ BuildSmall
    \/ \E f \in Interns : DeterminizeCall(f)
    \/ DeterminizeStep

\* a loop that was entered goes on: nothing else is running
SpecDeterminize ==
    /\ Init
    /\ [][NextDeterminize]_vars
    /\ WF_vars(DeterminizeStep)

(***************************************************************************)
(* modulo_epsilon_state called on a set of states of an automaton of       *)
(* epsilon transitions over three states, long enough for a chain and for  *)
(* a cycle through a state that is not given.                              *)
(***************************************************************************)
ClosureStates == {0, 1, 2}

AddEpsilon(source, target) ==
    /\ pc = "build"
    /\ Marks(nfa) < MaxEpsMarks
    /\ nfa' = add(nfa, source, Eps, target)
    /\ ret' = NoRet
    /\ UNCHANGED <<other, builder, pc, vs, word, out, walk>>

ModuloEpsilonState(qs) ==
    /\ pc = "build"
    /\ ret' = [op |-> "modulo_epsilon_state",
               val |-> [qs |-> qs, states |-> modulo_epsilon_state(nfa, qs)]]
    /\ pc' = "done"
    /\ UNCHANGED <<nfa, other, builder, vs, word, out, walk>>

NextClosure ==
    \/ \E s \in ClosureStates, t \in ClosureStates : AddEpsilon(s, t)
    \/ \E qs \in SUBSET ClosureStates : ModuloEpsilonState(qs)

SpecClosure == Init /\ [][NextClosure]_vars

(***************************************************************************)
(* Every operation that changes or returns an automaton: the mutators,     *)
(* mapped_union, the builder, and product of the two automata built.       *)
(***************************************************************************)
NextKeys ==
    \/ BuildPair(SelfEpsLabels, SelfEpsLabels, MaxKeyMarks)
    \/ \E q \in States : SelfAddState(q)
    \/ \E f \in Renamings : SelfMappedUnion(f)
    \/ SelfBuilderNextState
    \/ \E f \in InjectivePairNames : Product(f)

SpecKeys == InitMutators /\ [][NextKeys]_vars

(***************************************************************************)
(* to_singleton, then is_singleton, on the same automaton: the caller      *)
(* keeps the Option<String> to_singleton returned (in word) and calls      *)
(* is_singleton before any mutator.                                        *)
(***************************************************************************)
KeepToSingleton ==
    /\ pc = "done"
    /\ ret.op = "to_singleton"
    /\ word = <<>>
    /\ word' = << ret.val >>
    /\ pc' = "build"
    /\ ret' = NoRet
    /\ UNCHANGED <<nfa, other, builder, vs, out, walk>>

NextSingletonBoth ==
    \/ word = <<>> /\ Build
    \/ word = <<>> /\ ToSingletonCall
    \/ ToSingletonStep
    \/ KeepToSingleton
    \/ word # <<>> /\ IsSingletonCall
    \/ IsSingletonStep

SpecSingletonBoth == Init /\ [][NextSingletonBoth]_vars

Next ==
    \/ Build
    \/ RecognizesEmpty
    \/ InitialState
    \/ \E c \in Chars : NextState(c)
    \/ \E f \in InjectiveInterns : Determinize(f)

Spec == Init /\ [][Next]_vars

(***************************************************************************)
(* Definitions the properties are stated with.                             *)
(***************************************************************************)
EpsClosed(n, T) == \A q \in T : Targets(n, q, Eps) \subseteq T

\* the least set that contains S and is closed under epsilon transitions
EpsClosure(n, S) ==
    LET U == S \cup StatesOf(n)
    IN  { q \in U : \A T \in SUBSET U : (S \subseteq T /\ EpsClosed(n, T)) => q \in T }

\* the states of C with a non-epsilon transition whose label contains c
Movers(n, C, c) ==
    { q \in C : \E l \in DOMAIN TransitionsOf(n, q) :
                    l.some /\ c \in RangeSetElems(l.set) }

\* the union of the target sets of those transitions
MoveTargets(n, C, c) ==
    { t \in StatesOf(n) :
        \E q \in C : \E l \in DOMAIN TransitionsOf(n, q) :
            l.some /\ c \in RangeSetElems(l.set) /\ t \in n.transitions[q][l] }

\* the recognizer fed a word: initial_state, then one next_state per token
RECURSIVE Run(_, _)
Run(n, w) ==
    IF w = <<>> THEN initial_state(n)
    ELSE LET s == Run(n, Front(w))
         IN  IF s.some THEN next_state(n, s, w[Len(w)]) ELSE NoState

Accepts(n, w) ==
    LET s == Run(n, w) IN s.some /\ recognizer_is_final_state(n, s)

RECURSIVE WordsOfLen(_)
WordsOfLen(k) ==
    IF k = 0 THEN { <<>> }
    ELSE { Append(w, c) : w \in WordsOfLen(k - 1), c \in Chars }

Words == UNION { WordsOfLen(k) : k \in 0 .. MaxLen }

\* the DFA recognizer fed a word
RECURSIVE DetRun(_, _)
DetRun(d, w) ==
    IF w = <<>> THEN dfa_initial_state(d)
    ELSE LET s == DetRun(d, Front(w))
         IN  IF s.some THEN dfa_next_state(d, s, w[Len(w)]) ELSE NoDetState

DetAccepts(d, w) ==
    LET s == DetRun(d, w) IN s.some /\ dfa_is_final_state(d, s)

(***************************************************************************)
(* C1: for every NFA and every word of at most MaxLen tokens, the DFA      *)
(* determinize returns with an injective interning function accepts the    *)
(* word iff the NFA accepts it.                                            *)
(***************************************************************************)
C1_DeterminizePreservesLanguage ==
    ret.op = "determinize" =>
        \A w \in Words : DetAccepts(out, w) <=> Accepts(nfa, w)

\* a determinized automaton accepts a non-empty word on which the NFA is
\* in two states at once, one of them entered by an epsilon transition
C1_Witness ==
    /\ ret.op = "determinize"
    /\ \E w \in Words :
          /\ Len(w) > 0
          /\ DetAccepts(out, w)
          /\ Cardinality(Run(nfa, w).states) > 1
          /\ \E q \in Run(nfa, w).states : Targets(nfa, q, Eps) # {}

(***************************************************************************)
(* C8: recognizes_empty() returns true iff the epsilon-closure of the      *)
(* initial states contains a final state (false when there is no initial   *)
(* state, and right in the presence of epsilon-cycles).                    *)
(***************************************************************************)
C8_RecognizesEmpty ==
    ret.op = "recognizes_empty" =>
        (ret.val <=> (EpsClosure(nfa, nfa.initial_states) \cap nfa.final_states # {}))

\* true was returned for a final state found behind an epsilon transition
C8_Witness ==
    /\ ret.op = "recognizes_empty"
    /\ ret.val
    /\ nfa.initial_states \cap nfa.final_states = {}

(***************************************************************************)
(* C9: next_state on a state whose current set is C returns None iff no q  *)
(* of C has a non-epsilon transition whose label contains the token, and   *)
(* otherwise a state whose current set is the epsilon-closure of the union *)
(* of the targets of those transitions; the current set of every state the *)
(* recognizer produces is non-empty and closed under epsilon transitions.  *)
(***************************************************************************)
C9_NextState ==
    (pc = "run" /\ vs.some) =>
        /\ vs.states # {}
        /\ EpsClosed(nfa, vs.states)
        /\ \A c \in Chars :
              LET r == next_state(nfa, vs, c)
              IN  /\ (~r.some) <=> (Movers(nfa, vs.states, c) = {})
                  /\ r.some =>
                        r.states = EpsClosure(nfa, MoveTargets(nfa, vs.states, c))

\* a step was taken whose result holds a state reached by epsilon only
C9_Witness ==
    /\ pc = "run"
    /\ Len(word) > 0
    /\ vs.some
    /\ LET before == Run(nfa, Front(word))
       IN  vs.states # MoveTargets(nfa, before.states, word[Len(word)])

(***************************************************************************)
(* C10: initial_state() returns None iff the initial state set is empty,   *)
(* and otherwise a state whose current set is the epsilon-closure of the   *)
(* initial states.                                                         *)
(***************************************************************************)
C10_InitialState ==
    (pc = "run" /\ word = <<>>) =>
        /\ (~vs.some) <=> (nfa.initial_states = {})
        /\ vs.some => vs.states = EpsClosure(nfa, nfa.initial_states)

\* initial_state returned a set larger than the initial states
C10_Witness ==
    /\ pc = "run"
    /\ word = <<>>
    /\ vs.some
    /\ vs.states # nfa.initial_states

(***************************************************************************)
(* C2: for automata without epsilon transitions and every word of at most  *)
(* MaxLen tokens, the product under an injective pair naming accepts the   *)
(* word iff both automata accept it; the empty word is accepted iff each   *)
(* automaton has an initial state that is final.                           *)
(***************************************************************************)
EpsFree(n) == \A q \in DOMAIN n.transitions : Eps \notin DOMAIN n.transitions[q]

C2_ProductIsIntersection ==
    (ret.op = "product" /\ EpsFree(nfa) /\ EpsFree(other)) =>
        /\ \A w \in Words : Accepts(out, w) <=> (Accepts(nfa, w) /\ Accepts(other, w))
        /\ Accepts(out, <<>>) <=>
              /\ nfa.initial_states \cap nfa.final_states # {}
              /\ other.initial_states \cap other.final_states # {}

\* a product accepts a non-empty word under a label neither automaton has
C2_Witness ==
    /\ ret.op = "product"
    /\ EpsFree(nfa) /\ EpsFree(other)
    /\ \E w \in Words : Len(w) > 0 /\ Accepts(out, w)
    /\ \E l \in Labels_of(out) : l \notin Labels_of(nfa) \cup Labels_of(other)

(***************************************************************************)
(* C3: for automata without one-sided epsilon moves (at every pair (a, b)  *)
(* reachable in the product, a has an outgoing epsilon transition iff b    *)
(* has one) and every word of at most MaxLen tokens, the product under an  *)
(* injective pair naming accepts the word iff both automata accept it.     *)
(***************************************************************************)
HasEps(n, q) == Targets(n, q, Eps) # {}

\* the pairs the product holds as states
ProductPairs(A, B, f, P) ==
    { p \in StatesOf(A) \X StatesOf(B) : PairName(f, p[1], p[2]) \in StatesOf(P) }

NoOneSidedEps(A, B, f, P) ==
    \A p \in ProductPairs(A, B, f, P) : HasEps(A, p[1]) <=> HasEps(B, p[2])

C3_ProductWithEps ==
    (ret.op = "product" /\ NoOneSidedEps(nfa, other, ret.val, out)) =>
        \A w \in Words : Accepts(out, w) <=> (Accepts(nfa, w) /\ Accepts(other, w))

(***************************************************************************)
(* C4: after mapped_union under a renaming that is injective on the states *)
(* of the other automaton, self accepts a word of at most MaxLen tokens    *)
(* iff self accepted it before or the other automaton accepts it.          *)
(* As stated the claim fails when a renamed state is a state of self; it   *)
(* holds when the renaming is injective and its image is disjoint from the *)
(* states of self.                                                         *)
(***************************************************************************)
InjectiveOn(f, S) == \A p \in S, q \in S : Rename(f, p) = Rename(f, q) => p = q

DisjointImage(f, S, T) == { Rename(f, q) : q \in S } \cap T = {}

\* the claim as stated
C4_UnionInjective ==
    (ret.op = "mapped_union" /\ InjectiveOn(ret.val, StatesOf(other))) =>
        \A w \in Words : Accepts(nfa, w) <=> (Accepts(out, w) \/ Accepts(other, w))

\* the claim as amended
C4_UnionDisjoint ==
    ( /\ ret.op = "mapped_union"
      /\ InjectiveOn(ret.val, StatesOf(other))
      /\ DisjointImage(ret.val, StatesOf(other), StatesOf(out)) ) =>
        \A w \in Words : Accepts(nfa, w) <=> (Accepts(out, w) \/ Accepts(other, w))

\* a union under an injective renaming with a disjoint image accepts a
\* non-empty word of the other automaton that self did not accept, and the
\* empty word that only self accepted
C4_Witness ==
    /\ ret.op = "mapped_union"
    /\ InjectiveOn(ret.val, StatesOf(other))
    /\ DisjointImage(ret.val, StatesOf(other), StatesOf(out))
    /\ StatesOf(out) # {}
    /\ \E w \in Words :
          Len(w) > 0 /\ Accepts(other, w) /\ ~Accepts(out, w) /\ Accepts(nfa, w)
    /\ Accepts(out, <<>>) /\ ~Accepts(other, <<>>) /\ Accepts(nfa, <<>>)

(***************************************************************************)
(* C5: if to_singleton returns Some(w) then the automaton accepts w and no *)
(* other word; it returns None when the automaton recognizes no word or    *)
(* more than one.                                                          *)
(***************************************************************************)
C5_ToSingletonSound ==
    (ret.op = "to_singleton" /\ ret.val.some) =>
        /\ Accepts(nfa, ret.val.string)
        /\ \A w \in Words : Accepts(nfa, w) => w = ret.val.string

(***************************************************************************)
(* C6: is_singleton and to_singleton return after finitely many steps on   *)
(* every finite automaton, whether or not the chain of single-scalar       *)
(* transitions followed from the initial state revisits a state.           *)
(***************************************************************************)
C6_SingletonTerminates ==
    (pc = "walk" /\ walk.at = "is_singleton") ~> (pc = "done")

(***************************************************************************)
(* C7: on a builder with limit L, the k-th call of next_state returns      *)
(* Ok(k-1) and adds k-1 to the automaton as a state without transitions    *)
(* iff k <= L; every other call returns TooManyStates and adds no state.   *)
(***************************************************************************)
Min(a, b) == IF a < b THEN a ELSE b

C7_BuilderNextState ==
    ret.op = "builder_next_state" =>
        LET k == builder.calls
            L == builder.limit
        IN  /\ ret.val.ok <=> (k <= L)
            /\ ret.val.ok => /\ ret.val.q = k - 1
                             /\ (k - 1) \in DOMAIN nfa.transitions
                             /\ nfa.transitions[k - 1] = EmptyMap
            /\ DOMAIN nfa.transitions = 0 .. (Min(k, L) - 1)
            /\ nfa.initial_states = {} /\ nfa.final_states = {}

\* every identifier of the counter's width was issued, and the next call
\* failed on the overflow of the counter, the limit never being exceeded
C7_Witness ==
    /\ ret.op = "builder_next_state"
    /\ ~ret.val.ok
    /\ builder.limit = CountMax
    /\ builder.count = CountMax
    /\ DOMAIN nfa.transitions = 0 .. (CountMax - 1)

(***************************************************************************)
(* C11: a scalar is in charset_intersection(A, B) iff it is in A and in B; *)
(* the intersection with the empty set is empty and the intersection with  *)
(* the set of all scalars is the other set.                                *)
(***************************************************************************)
C11_CharsetIntersection ==
    ret.op = "charset_intersection" =>
        LET a == ret.val.a
            b == ret.val.b
            result == ret.val.result
        IN  /\ \A c \in Chars :
                  RangeSetContains(result, c) <=>
                      (RangeSetContains(a, c) /\ RangeSetContains(b, c))
            /\ result = RangeSetOf(RangeSetElems(result))
            /\ (RangeSetIsEmpty(a) \/ RangeSetIsEmpty(b)) => RangeSetIsEmpty(result)
            /\ a = RangeSetOf(Chars) => result = b
            /\ b = RangeSetOf(Chars) => result = a

\* a set of two ranges was cut down to a non-empty set that is neither argument
C11_Witness ==
    /\ ret.op = "charset_intersection"
    /\ Len(ret.val.a) = 2
    /\ ~RangeSetIsEmpty(ret.val.result)
    /\ ret.val.result # ret.val.a
    /\ ret.val.result # ret.val.b

(***************************************************************************)
(* C12: every call of add_state, add, add_initial_state, add_final_state,  *)
(* mapped_union and of the builder's next_state only grows the automaton:  *)
(* its states, the target set of every state and label, its initial and    *)
(* its final states after the call are supersets of those before it.       *)
(***************************************************************************)
Grows(n, m) ==
    /\ DOMAIN n.transitions \subseteq DOMAIN m.transitions
    /\ \A q \in DOMAIN n.transitions :
          /\ DOMAIN n.transitions[q] \subseteq DOMAIN m.transitions[q]
          /\ \A label \in DOMAIN n.transitions[q] :
                n.transitions[q][label] \subseteq m.transitions[q][label]
    /\ n.initial_states \subseteq m.initial_states
    /\ n.final_states \subseteq m.final_states

C12_MutatorsGrow == [][Grows(nfa, nfa')]_vars

\* a state that has transitions was added again and kept them
C12_Witness ==
    /\ ret.op = "add_state"
    /\ TransitionsOf(nfa, ret.val) # EmptyMap

(***************************************************************************)
(* C13: the mutators are idempotent.  A second call of add_state, add,     *)
(* add_initial_state or add_final_state with the same arguments leaves the *)
(* automaton as it was after the first; add_initial_state and              *)
(* add_final_state return true iff the state was not marked yet, so true   *)
(* at most on the first call and false on the repeat.                      *)
(***************************************************************************)
C13_MutatorsIdempotent ==
    /\ \A q \in States :
          LET n1 == add_state(nfa, q)
              i1 == add_initial_state(nfa, q)
              i2 == add_initial_state(i1.nfa, q)
              f1 == add_final_state(nfa, q)
              f2 == add_final_state(f1.nfa, q)
          IN  /\ add_state(n1, q) = n1
              /\ i2.nfa = i1.nfa
              /\ i1.ret <=> ~is_initial_state(nfa, q)
              /\ ~i2.ret
              /\ f2.nfa = f1.nfa
              /\ f1.ret <=> ~is_final_state(nfa, q)
              /\ ~f2.ret
    /\ \A s \in States, l \in Labels, t \in States :
          LET n1 == add(nfa, s, l, t) IN add(n1, s, l, t) = n1
    /\ ret.op = "add_initial_state" =>
          \E q \in nfa.initial_states : ~add_initial_state(nfa, q).ret
    /\ ret.op = "add_final_state" =>
          \E q \in nfa.final_states : ~add_final_state(nfa, q).ret

\* add_initial_state was called on a state already marked and returned
\* false; the automaton has transitions and marks the call left alone
C13_Witness ==
    /\ pc = "build"
    /\ ret.op = "add_initial_state"
    /\ ~ret.val
    /\ Triples(nfa) # {}
    /\ nfa.final_states # {}

(***************************************************************************)
(* C14: any_char() contains every scalar of [0x0000, 0xD7FF] and of        *)
(* [0xE000, 0x10FFFF] and none of the surrogates [0xD800, 0xDFFF]; the     *)
(* automaton with one transition labelled any_char() from its initial to   *)
(* a final state steps to acceptance on the scalars that are no surrogate, *)
(* and on no other.                                                        *)
(***************************************************************************)
C14_AnyChar ==
    (pc = "run" /\ Len(word) = 1) =>
        LET c == word[1]
            scalar == c \in 0 .. 55295 \/ c \in 57344 .. 1114111
            surrogate == c \in 55296 .. 57343
        IN  /\ scalar => RangeSetContains(any_char, c)
            /\ surrogate => ~RangeSetContains(any_char, c)
            /\ (vs.some /\ recognizer_is_final_state(nfa, vs)) <=> ~surrogate

\* the first scalar after the surrogates was fed and accepted
C14_Witness ==
    /\ pc = "run"
    /\ word = <<57344>>
    /\ vs.some
    /\ recognizer_is_final_state(nfa, vs)

(***************************************************************************)
(* C15: for every subset S determinize expands, the table built for S has  *)
(* non-empty, pairwise disjoint ranges; a scalar lies in one of them iff a *)
(* state of S has a non-epsilon transition whose label contains it, and    *)
(* the subset attached to its range is the union of the epsilon-closures   *)
(* of the targets of those transitions.  The DFA holds that table at the   *)
(* image of S.                                                             *)
(***************************************************************************)
\* the subsets determinize expanded, under an injective interning function
Expanded(n, d, f) ==
    { S \in SUBSET StatesOf(n) : Intern(f, S) \in DOMAIN d.transitions }

C15_TableOf(n, S, table) ==
    /\ \A i \in 1 .. Len(table) : table[i][1][1] <= table[i][1][2]
    /\ \A i \in 1 .. Len(table) : \A j \in 1 .. Len(table) :
          i < j => table[i][1][2] < table[j][1][1]
    /\ \A c \in Chars :
          /\ (\E i \in 1 .. Len(table) : c \in table[i][1][1] .. table[i][1][2])
                <=> (Movers(n, S, c) # {})
          /\ \A i \in 1 .. Len(table) :
                c \in table[i][1][1] .. table[i][1][2] =>
                    table[i][2] = EpsClosure(n, MoveTargets(n, S, c))

C15_DeterminizeTable ==
    ret.op = "determinize" =>
        \A S \in Expanded(nfa, out, ret.val) :
            LET table == determinize_transitions_for(nfa, S)
            IN  /\ C15_TableOf(nfa, S, table)
                /\ out.transitions[Intern(ret.val, S)] =
                      [range \in { table[i][1] : i \in 1 .. Len(table) } |->
                          Intern(ret.val,
                                 EpsClosure(nfa, MoveTargets(nfa, S, range[1])))]

\* two overlapping labels of one subset, to different subsets, were split
\* into three ranges
C15_Witness ==
    /\ ret.op = "determinize"
    /\ \E S \in Expanded(nfa, out, ret.val) :
          LET table == determinize_transitions_for(nfa, S)
          IN  /\ Len(table) = 3
              /\ table[1][2] # table[2][2]
              /\ table[2][2] # table[3][2]
              /\ table[1][2] # table[3][2]

(***************************************************************************)
(* C16: the DFA determinize returns has f(S) in its final set iff S holds  *)
(* a final state of the NFA, for every subset S the construction reached   *)
(* (popped from its stack).  Stated for every deterministic f, then for    *)
(* the f that give distinct subsets distinct images.                       *)
(***************************************************************************)
FinalImages(n, d, f, reached) ==
    \A S \in reached :
        (Intern(f, S) \in d.final_states) <=> (S \cap n.final_states # {})

C16_FinalAnyIntern ==
    (pc = "done" /\ ret.op = "determinize") =>
        FinalImages(nfa, out, ret.val, walk.popped)

C16_FinalInjectiveIntern ==
    (pc = "done" /\ ret.op = "determinize" /\ ret.val \in InjectiveInterns) =>
        FinalImages(nfa, out, ret.val, walk.popped)

\* under an injective interning, a final and a non-final subset were reached
C16_Witness ==
    /\ pc = "done"
    /\ ret.op = "determinize"
    /\ ret.val \in InjectiveInterns
    /\ \E S \in walk.popped : S \cap nfa.final_states # {}
    /\ \E S \in walk.popped : S \cap nfa.final_states = {}
    /\ Len(walk.expanded) > 1

\* the loop, run step by step, returns what determinize returns
StepwiseAgrees ==
    (pc = "done" /\ ret.op = "determinize") => out = determinize(nfa, ret.val)

(***************************************************************************)
(* C17: for every NFA, with epsilon-cycles and character cycles, and every *)
(* deterministic f, injective or not, the worklist loop of determinize     *)
(* terminates: no image is expanded twice, and a call that was made        *)
(* returns with its stack empty.                                           *)
(***************************************************************************)
ExpandedOnce ==
    \A i \in 1 .. Len(walk.expanded) : \A j \in 1 .. Len(walk.expanded) :
        i # j => walk.expanded[i] # walk.expanded[j]

C17_DeterminizeTerminates ==
    (pc = "walk" /\ walk.at = "determinize")
        ~> (pc = "done" /\ walk.stack = <<>> /\ ExpandedOnce)

\* determinize returned on an automaton whose initial state lies on an
\* epsilon-cycle and on a character cycle
C17_Witness ==
    /\ pc = "done"
    /\ ret.op = "determinize"
    /\ \E q \in nfa.initial_states :
          /\ q \in Targets(nfa, q, Eps)
          /\ \E l \in DOMAIN TransitionsOf(nfa, q) : l.some /\ q \in nfa.transitions[q][l]

(***************************************************************************)
(* C18: modulo_epsilon_state returns the least set that contains S and is  *)
(* closed under epsilon transitions; it is idempotent and monotone, on     *)
(* every automaton, epsilon-cycles included, and all state sets S, T.      *)
(***************************************************************************)
C18_EpsilonClosure ==
    ret.op = "modulo_epsilon_state" =>
        LET S == ret.val.qs
            closure == ret.val.states
        IN  /\ S \subseteq closure
            /\ EpsClosed(nfa, closure)
            /\ \A T \in SUBSET ClosureStates :
                  (S \subseteq T /\ EpsClosed(nfa, T)) => closure \subseteq T
            /\ modulo_epsilon_state(nfa, closure) = closure
            /\ \A T \in SUBSET ClosureStates :
                  S \subseteq T => closure \subseteq modulo_epsilon_state(nfa, T)

\* the closure of one state of an epsilon-cycle through all three states
C18_Witness ==
    /\ ret.op = "modulo_epsilon_state"
    /\ Cardinality(ret.val.qs) = 1
    /\ ret.val.states = ClosureStates
    /\ \A q \in ClosureStates : Cardinality(Targets(nfa, q, Eps)) = 1

(***************************************************************************)
(* C19: under an injective pair naming, the automaton product returns has  *)
(* as initial states the images of the pairs of initial states, as states  *)
(* the images of the pairs reachable from those through product            *)
(* transitions and no other, and as final states the images of the         *)
(* reachable pairs whose two components are final.                         *)
(***************************************************************************)
\* the pairs one product transition leads to from (a, b): both automata move
\* on a common scalar, or both move on epsilon
PairSuccessors(A, B, a, b) ==
    { s \in StatesOf(A) \X StatesOf(B) :
        \E la \in DOMAIN TransitionsOf(A, a), lb \in DOMAIN TransitionsOf(B, b) :
            /\ s[1] \in A.transitions[a][la]
            /\ s[2] \in B.transitions[b][lb]
            /\ \/ ~la.some /\ ~lb.some
               \/ /\ la.some
                  /\ lb.some
                  /\ \E c \in Chars : c \in RangeSetElems(la.set) \cap RangeSetElems(lb.set) }

RECURSIVE PairsFrom(_, _, _)
PairsFrom(A, B, R) ==
    LET next == R \cup UNION { PairSuccessors(A, B, p[1], p[2]) : p \in R }
    IN  IF next = R THEN R ELSE PairsFrom(A, B, next)

ReachablePairs(A, B) == PairsFrom(A, B, A.initial_states \X B.initial_states)

C19_ProductReachable ==
    ret.op = "product" =>
        LET f == ret.val
            reachable == ReachablePairs(nfa, other)
        IN  /\ out.initial_states =
                  { PairName(f, p[1], p[2]) : p \in nfa.initial_states \X other.initial_states }
            /\ DOMAIN out.transitions = { PairName(f, p[1], p[2]) : p \in reachable }
            /\ out.final_states =
                  { PairName(f, p[1], p[2]) :
                      p \in { r \in reachable : /\ is_final_state(nfa, r[1])
                                                /\ is_final_state(other, r[2]) } }

\* a pair of targets of two transitions without a common scalar stayed out
\* of a product that holds a pair beyond the initial ones
C19_Witness ==
    /\ ret.op = "product"
    /\ \E a \in StatesOf(nfa), b \in StatesOf(other) :
          /\ PairName(ret.val, a, b) \notin DOMAIN out.transitions
          /\ \E p \in ReachablePairs(nfa, other) :
                \E la \in DOMAIN TransitionsOf(nfa, p[1]), lb \in DOMAIN TransitionsOf(other, p[2]) :
                    /\ la.some /\ lb.some
                    /\ a \in nfa.transitions[p[1]][la]
                    /\ b \in other.transitions[p[2]][lb]
    /\ DOMAIN out.transitions # out.initial_states

(***************************************************************************)
(* C20: in every automaton reached from NFA::new() by add_state, add,      *)
(* add_initial_state, add_final_state, mapped_union and the builder's      *)
(* next_state, and in every automaton product returns, every target of a   *)
(* transition is a key of the transition map.                              *)
(***************************************************************************)
TargetsAreKeys(n) == Targets_of(n) \subseteq DOMAIN n.transitions

C20_TargetsAreKeys ==
    /\ TargetsAreKeys(nfa)
    /\ TargetsAreKeys(other)
    /\ ret.op = "product" => TargetsAreKeys(out)

\* a product holds a target that has no transitions, made of two targets of
\* automata one of which was united into
C20_Witness ==
    /\ ret.op = "product"
    /\ \E q \in Targets_of(out) : out.transitions[q] = EmptyMap
    /\ \E q \in StatesOf(nfa) : q \notin States

(***************************************************************************)
(* C21: in every recognizer state initial_state or next_state returns, the *)
(* scratch set next_states and the stack are empty, so the result of a     *)
(* later step holds nothing left over from an earlier one: it is what the  *)
(* step gives from the current set alone.                                  *)
(***************************************************************************)
C21_ScratchEmpty ==
    (pc = "run" /\ vs.some) =>
        /\ vs.next_states = {}
        /\ vs.stack = <<>>
        /\ \A c \in Chars :
              LET r == next_state(nfa, vs, c)
              IN  r.some => r.states \subseteq EpsClosure(nfa, MoveTargets(nfa, vs.states, c))

\* two steps were taken, and the state before the second held a state the
\* result of the second does not hold
C21_Witness ==
    /\ pc = "run"
    /\ Len(word) = 2
    /\ vs.some
    /\ Run(nfa, Front(word)).states \ vs.states # {}

(***************************************************************************)
(* C22: on every automaton on which both return, is_singleton() returns    *)
(* true iff to_singleton() returns Some.                                   *)
(***************************************************************************)
C22_SingletonAgree ==
    (pc = "done" /\ ret.op = "is_singleton" /\ word # <<>>) =>
        (ret.val <=> word[1].some)

\* both walks followed a transition and left the loop at its target: Some
\* of a string of one scalar, and true
C22_Witness ==
    /\ pc = "done"
    /\ ret.op = "is_singleton"
    /\ word # <<>>
    /\ ret.val
    /\ word[1].some
    /\ Len(word[1].string) = 1

(***************************************************************************)
(* C23: once a call of next_state has returned TooManyStates, every later  *)
(* call on the same builder returns TooManyStates: a call that fails on    *)
(* the limit advances the counter by one, a call that fails on the         *)
(* overflow leaves it, and the counter never comes back to a value at or   *)
(* below the limit.                                                        *)
(***************************************************************************)
C23_FailurePermanent ==
    [][ (ret.op = "builder_next_state" /\ ~ret.val.ok) =>
            /\ ~ret'.val.ok
            /\ nfa' = nfa
            /\ builder'.count <= CountMax
            /\ builder'.count = IF builder.count < CountMax
                                THEN builder.count + 1 ELSE builder.count
            /\ builder'.count > builder.limit \/ builder'.count = CountMax
      ]_vars

\* failed calls advanced the counter from past the limit up to the last
\* value of its width, and the calls after that failed on the overflow
C23_Witness ==
    /\ ret.op = "builder_next_state"
    /\ ~ret.val.ok
    /\ builder.limit + 1 < CountMax
    /\ builder.count = CountMax
    /\ builder.calls > CountMax + 1

=============================================================================
